---- MODULE Spec2Model ----
(***************************************************************************)
(* A model of jarss' per-source fetch cache (src/src/cache.rs): the        *)
(* conditional fetch protocol query_site, the CacheManager (get_mut, save) *)
(* and the SiteCache store (load_for_site, save_for_site).                 *)
(*                                                                         *)
(* Time is a global clock that only moves forward.  Every .await of the    *)
(* code is a point at which other tasks run and the clock may advance.     *)
(***************************************************************************)
EXTENDS Integers, Sequences, FiniteSets, TLC

\* ------------------------------------------------------------------ bounds
\* The clock runs from 0 to MaxTime.
MaxTime == 4
MaxNameLen == 2

\* Scaled integer widths: u64 (the type retry-after is parsed into) and the
\* largest second a SystemTime can hold (a signed 64-bit count on Linux, so
\* strictly below the u64 maximum).
U64Max == 127
SysTimeMax == 63

\* Config::min_fetch_interval, in seconds.
min_fetch_interval == 2

\* ------------------------------------------------------------ Option<T>
None == <<>>
Some(x) == <<x>>
IsSome(o) == o # <<>>
Unwrap(o) == o[1]

\* ------------------------------------------------------------- the inputs
T1 == "t1"
T2 == "t2"
Tasks == {T1, T2}

\* SiteConfig::name of the configured sites, as sequences of characters.
SiteA == <<"N", "e", "w", "s">>
SiteB == <<"b", "_", "1">>
Sites == {SiteA, SiteB}

\* A byte that is not visible ASCII: HeaderValue::to_str fails on it.
OpaqueByte == "0xFF"

E1 == <<"e", "1">>
E2 == <<"e", "2">>
L1 == <<"M", "o", "n">>
Binary == <<"x", OpaqueByte>>

Feed1 == "<rss>1</rss>"
Feed2 == "not a feed"
Bodies == {Feed1, Feed2}

\* Response header lists, in the order the response carries them.
HdrNone == <<>>
HdrEtag == << <<"etag", E1>> >>
HdrLastModified == << <<"last-modified", L1>> >>
HdrBoth == << <<"etag", E1>>, <<"last-modified", L1>>, <<"etag", E2>> >>
HdrBinary == << <<"etag", E1>>, <<"x-bin", Binary>> >>
OkHeaders == {HdrNone, HdrEtag, HdrLastModified, HdrBoth, HdrBinary}

\* retry-after values a 429 may carry.
RetryAfterValues ==
    { <<"2">>, <<"+", "1">>, <<"0">>, <<"s", "o", "o", "n">>, <<"-", "1">>,
      <<"9", "9">>, <<"1", "2", "8">>, Binary, <<>> }

Response(st, h, b) == [status |-> st, headers |-> h, body |-> b]

\* Statuses other than 200, 304 and 429: one of 1xx, 2xx and 3xx, and the
\* ends of 4xx and 5xx.
OtherStatuses == {100, 204, 301, 400, 404, 499, 500, 599}

Responses ==
    { Response(200, h, b) : h \in OkHeaders, b \in Bodies }
    \cup { Response(304, HdrEtag, "") }
    \cup { Response(429, HdrNone, "") }
    \cup { Response(429, << <<"retry-after", v>> >>, "") : v \in RetryAfterValues }
    \cup { Response(st, HdrNone, "") : st \in OtherStatuses }

\* --------------------------------------------------------------- SiteCache
SiteCache(ra, h, b, ft) ==
    [last_retry_after |-> ra, last_headers |-> h, last_body |-> b,
     last_fetch_time |-> ft]

\* SiteCache::default()
DefaultSiteCache == SiteCache(None, None, None, None)

\* ------------------------------------------------------- pure functions

\* HeaderValue::to_str: Ok only if every byte is visible ASCII.
to_str_ok(v) == \A i \in DOMAIN v : v[i] # OpaqueByte

Digits == {"0", "1", "2", "3", "4", "5", "6", "7", "8", "9"}
DigitValue(c) ==
    CASE c = "0" -> 0 [] c = "1" -> 1 [] c = "2" -> 2 [] c = "3" -> 3
      [] c = "4" -> 4 [] c = "5" -> 5 [] c = "6" -> 6 [] c = "7" -> 7
      [] c = "8" -> 8 [] c = "9" -> 9

RECURSIVE ParseDigits(_, _)
ParseDigits(s, acc) ==
    IF s = <<>> THEN Some(acc)
    ELSE IF Head(s) \notin Digits THEN None
    ELSE LET a == acc * 10 + DigitValue(Head(s))
         IN  IF a > U64Max THEN None ELSE ParseDigits(Tail(s), a)

\* str::parse::<u64>: an optional '+', then one or more decimal digits, the
\* value within u64.  None is Err.
parse_u64(s) ==
    IF s = <<>> THEN None
    ELSE LET digits == IF Head(s) = "+" THEN Tail(s) ELSE s
         IN  IF digits = <<>> THEN None ELSE ParseDigits(digits, 0)

\* retry_after.to_str().map(str::parse::<u64>) matched against Ok(Ok(interval)).
parse_retry_after(v) == IF to_str_ok(v) THEN parse_u64(v) ELSE None

\* SystemTime + Duration::from_secs(secs): None is the panic "overflow when
\* adding duration to instant".
system_time_add(time, secs) ==
    IF time + secs > SysTimeMax THEN None ELSE Some(time + secs)

\* HeaderMap::get: the first value of the header, if any.
RECURSIVE header_get(_, _)
header_get(h, key) ==
    IF h = <<>> THEN None
    ELSE IF Head(h)[1] = key THEN Some(Head(h)[2])
    ELSE header_get(Tail(h), key)

HeaderKeys(h) == { h[i][1] : i \in DOMAIN h }

\* .collect::<Result<HashMap<_, _>, _>>(): Err (None) on the first value that
\* is not text; otherwise each key maps to the last value listed for it.
collect_headers(h) ==
    IF \E i \in DOMAIN h : ~to_str_ok(h[i][2]) THEN None
    ELSE Some([k \in HeaderKeys(h) |->
                 h[CHOOSE i \in DOMAIN h :
                     /\ h[i][1] = k
                     /\ \A j \in DOMAIN h : h[j][1] = k => j <= i][2]])

\* HashMap::get on the stored headers.
map_get(m, key) == IF key \in DOMAIN m THEN Some(m[key]) ELSE None

\* conditional_header with last-modified looked up before etag.
conditional_header_last_modified_first(cache) ==
    IF IsSome(cache.last_headers)
    THEN LET last_headers == Unwrap(cache.last_headers)
         IN  IF IsSome(map_get(last_headers, "last-modified"))
             THEN Some(<<"if-modified-since",
                         Unwrap(map_get(last_headers, "last-modified"))>>)
             ELSE IF IsSome(map_get(last_headers, "etag"))
             THEN Some(<<"if-none-match", Unwrap(map_get(last_headers, "etag"))>>)
             ELSE None
    ELSE None

\* The conditional header query_site attaches to the request.
conditional_header(cache) ==
    IF IsSome(cache.last_headers)
    THEN LET last_headers == Unwrap(cache.last_headers)
         IN  IF IsSome(map_get(last_headers, "etag"))
             THEN Some(<<"if-none-match", Unwrap(map_get(last_headers, "etag"))>>)
             ELSE IF IsSome(map_get(last_headers, "last-modified"))
             THEN Some(<<"if-modified-since",
                         Unwrap(map_get(last_headers, "last-modified"))>>)
             ELSE None
    ELSE None

\* fetched_recently with the interval left out of the comparison.
fetched_recently_no_interval(cache, now) ==
    /\ IsSome(cache.last_fetch_time)
    /\ Unwrap(cache.last_fetch_time) > now

\* cache.last_fetch_time.is_some_and(|time| time + min_fetch_interval > now)
fetched_recently(cache, now) ==
    /\ IsSome(cache.last_fetch_time)
    /\ Unwrap(cache.last_fetch_time) + min_fetch_interval > now

\* retry_after_pending with > for >=.
retry_after_pending_strict(cache, now) ==
    /\ IsSome(cache.last_retry_after)
    /\ Unwrap(cache.last_retry_after) > now

\* cache.last_retry_after.is_some_and(|retry_after| retry_after >= now)
retry_after_pending(cache, now) ==
    /\ IsSome(cache.last_retry_after)
    /\ Unwrap(cache.last_retry_after) >= now

\* is_client_error taking the redirections in.
is_client_error_from_300(status) == 300 <= status /\ status <= 499

is_client_error(status) == 400 <= status /\ status <= 499
is_server_error(status) == 500 <= status /\ status <= 599

\* ---------------------------------------------------------------- store

LowerCase ==
    [c \in {"N", "B", "A"} |->
        CASE c = "N" -> "n" [] c = "B" -> "b" [] c = "A" -> "a"]

\* char::to_lowercase, as the sequence of characters it yields.
to_lowercase(c) ==
    IF c \in DOMAIN LowerCase THEN <<LowerCase[c]>>
    ELSE IF c = "U+0130" THEN <<"i", "U+0307">>
    ELSE <<c>>

\* char::is_alphanumeric: the letters and digits of every script, U+4E2D
\* (a letter that has no case) among them.
is_alphanumeric(c) ==
    c \in Digits \cup {"N", "B", "A", "a", "b", "e", "n", "s", "w", "U+0130",
                       "U+4E2D"}

is_whitespace(c) == c \in {" ", "\t"}

RECURSIVE FilterMapName(_)
FilterMapName(name) ==
    IF name = <<>> THEN <<>>
    ELSE LET c == Head(name)
             kept == IF is_alphanumeric(c)
                     THEN IF Len(to_lowercase(c)) = 1 THEN to_lowercase(c) ELSE <<>>
                     ELSE IF is_whitespace(c) \/ c = "-" \/ c = "_" THEN <<"-">>
                     ELSE <<>>
         IN  kept \o FilterMapName(Tail(name))

cache_file_for_name(name) == FilterMapName(name) \o <<".lz4">>

Files == { cache_file_for_name(s) : s \in Sites }

\* postcard::to_stdvec: the fields in declaration order.
postcard_to_stdvec(cache) ==
    <<"postcard", cache.last_retry_after, cache.last_headers, cache.last_body,
      cache.last_fetch_time>>

\* postcard_from_bytes with the two timestamps taken in the other order.
postcard_from_bytes_swapped_times(bytes) ==
    IF Len(bytes) = 5 /\ bytes[1] = "postcard"
    THEN Some(SiteCache(bytes[5], bytes[3], bytes[4], bytes[2]))
    ELSE None

\* postcard::from_bytes: None is Err.
postcard_from_bytes(bytes) ==
    IF Len(bytes) = 5 /\ bytes[1] = "postcard"
    THEN Some(SiteCache(bytes[2], bytes[3], bytes[4], bytes[5]))
    ELSE None

\* lz4_flex FrameEncoder: write_all then finish.
lz4_compress(encoded) == <<"lz4-frame", encoded>>

\* lz4_flex FrameDecoder read_to_end: an empty input reads as no bytes; None
\* is Err.
lz4_decompress(compressed) ==
    IF compressed = <<>> THEN Some(<<>>)
    ELSE IF Len(compressed) = 2 /\ compressed[1] = "lz4-frame" THEN Some(compressed[2])
    ELSE None

\* The bytes save_for_site writes.
encode_site_cache(cache) == lz4_compress(postcard_to_stdvec(cache))

\* load_for_site falling back to the default record when the file does not
\* decode.
load_for_site_default_on_error(d, name) ==
    LET file == d[cache_file_for_name(name)]
    IN  IF ~IsSome(file) THEN Some(DefaultSiteCache)
        ELSE LET encoded == lz4_decompress(Unwrap(file))
             IN  IF ~IsSome(encoded) THEN Some(DefaultSiteCache)
                 ELSE IF ~IsSome(postcard_from_bytes(Unwrap(encoded)))
                 THEN Some(DefaultSiteCache)
                 ELSE postcard_from_bytes(Unwrap(encoded))

\* SiteCache::load_for_site on a store `d`: Some(cache) or None for Err.
load_for_site(d, name) ==
    LET file == d[cache_file_for_name(name)]
    IN  IF ~IsSome(file) THEN Some(DefaultSiteCache)
        ELSE LET encoded == lz4_decompress(Unwrap(file))
             IN  IF ~IsSome(encoded) THEN None
                 ELSE postcard_from_bytes(Unwrap(encoded))

\* ------------------------------------------------------------------ state

VARIABLES
    clock,        \* SystemTime::now()
    disk,         \* cache_dir: file name -> Option<bytes>
    caches,       \* CacheManager::caches: site -> Option<[cache, locked_by]>
    crashed,      \* the process has panicked
    pc,           \* where each task is
    site,         \* the site each task works on
    loaded,       \* get_mut's local `cache`, between the load and the insert
    now,          \* query_site's local `now`
    req,          \* the conditional header of the request being sent
    res,          \* query_site's local `res`, once the status has arrived
    result,       \* what the task's last call returned
    entry,        \* the record as it was when query_site was entered
    requests,     \* requests the current query_site call has dispatched
    last_request, \* per site: when the latest request was dispatched, and when
                  \* the latest request answered 200 or 304 was dispatched
    save_pc,      \* where CacheManager::save is
    saves,        \* the futures save pushed, one per site it iterated over
    save_result,  \* what save returned
    main_pc,      \* where main is: run, feeds, or how it exited
    main_i,       \* the index in config.sites of main's fetch loop
    prev_run,     \* per site: the record the run before this one ended with
    feeds_seen,   \* the entries the stream of CacheManager::feeds has visited
    feeds_items,  \* the items the stream has yielded
    st_pc,        \* the store exercise: init, saved, loaded
    st_name,      \* the name a record is saved and loaded under
    st_cache,     \* the record that is saved
    st_saved,     \* whether save_for_site returned Ok
    st_loaded     \* what load_for_site returned

task_vars == <<pc, site, loaded, now, req, res, result, entry, requests>>
save_vars == <<save_pc, saves, save_result>>
main_vars == <<main_pc, main_i, prev_run>>
feeds_vars == <<feeds_seen, feeds_items>>
store_vars == <<st_pc, st_name, st_cache, st_saved, st_loaded>>
other_vars == <<main_vars, feeds_vars, store_vars>>
vars == <<clock, disk, caches, crashed, pc, site, loaded, now, req, res, result,
          entry, requests, last_request, save_pc, saves, save_result,
          main_pc, main_i, prev_run, feeds_seen, feeds_items,
          st_pc, st_name, st_cache, st_saved, st_loaded>>

NoResponse == Response(0, <<>>, "")
NoSave == [stage |-> "none", bytes |-> <<>>]
NoResult == [kind |-> "none", site |-> <<>>]

\* Records a previous run may have left in the store.
StoredCaches ==
    { SiteCache(None, Some([k \in {"etag"} |-> E1]), Some(Feed1), Some(0)),
      SiteCache(Some(1), None, None, None) }

\* Files load_for_site cannot decode: an empty one, one that is no lz4
\* frame, and a frame around a cut-off record.
CorruptFiles == { <<>>, <<"garbage">>, lz4_compress(<<"postcard">>) }

StoredFiles ==
    {None} \cup { Some(f) : f \in CorruptFiles }
    \cup { Some(encode_site_cache(c)) : c \in StoredCaches }

\* The state of a process that has just started, the store aside.
InitProcess ==
    /\ clock = 0
    /\ caches = [s \in Sites |-> None]
    /\ crashed = FALSE
    /\ pc = [t \in Tasks |-> "idle"]
    /\ site = [t \in Tasks |-> SiteA]
    /\ loaded = [t \in Tasks |-> DefaultSiteCache]
    /\ now = [t \in Tasks |-> 0]
    /\ req = [t \in Tasks |-> None]
    /\ res = [t \in Tasks |-> NoResponse]
    /\ result = [t \in Tasks |-> "none"]
    /\ entry = [t \in Tasks |-> DefaultSiteCache]
    /\ requests = [t \in Tasks |-> 0]
    /\ last_request = [s \in Sites |-> [sent |-> None, completed |-> None]]
    /\ save_pc = "idle"
    /\ saves = [s \in Sites |-> NoSave]
    /\ save_result = NoResult
    /\ main_pc = "run"
    /\ main_i = 1
    /\ prev_run = [s \in Sites |-> None]
    /\ feeds_seen = {}
    /\ feeds_items = <<>>

\* No record is being saved and loaded by hand.
InitNoStore ==
    /\ st_pc = "init"
    /\ st_name = <<>>
    /\ st_cache = DefaultSiteCache
    /\ st_saved = FALSE
    /\ st_loaded = None

InitWith(files) ==
    /\ InitProcess
    /\ InitNoStore
    /\ disk \in [Files -> files]

\* The record of the site task t works on (t holds its handle).
CacheOf(t) == Unwrap(caches[site[t]]).cache

SetCache(t, cache) ==
    caches' = [caches EXCEPT ![site[t]] = Some([Unwrap(@) EXCEPT !.cache = cache])]

\* The Mutex of a site's entry is not held.
mutex_free(s) == Unwrap(caches[s]).locked_by = None

Return(t, value) ==
    /\ pc' = [pc EXCEPT ![t] = "returned"]
    /\ result' = [result EXCEPT ![t] = value]

\* ------------------------------------------------------------------ time

Tick ==
    /\ ~crashed
    /\ UNCHANGED other_vars
    /\ clock < MaxTime
    /\ clock' = clock + 1
    /\ UNCHANGED <<disk, caches, crashed, task_vars, last_request, save_vars>>

\* ------------------------------------------------ CacheManager::get_mut

\* self.caches.get(&index.name, guard)
get_mut_get(t, s) ==
    /\ ~crashed
    /\ UNCHANGED other_vars
    /\ pc[t] = "idle"
    /\ site' = [site EXCEPT ![t] = s]
    /\ pc' = [pc EXCEPT ![t] = IF IsSome(caches[s]) THEN "lock" ELSE "load"]
    /\ result' = [result EXCEPT ![t] = "none"]
    /\ requests' = [requests EXCEPT ![t] = 0]
    /\ UNCHANGED <<clock, disk, caches, crashed, loaded, now, req, res, entry,
                   last_request, save_vars>>

\* SiteCache::load_for_site(&self.cache_dir, index).await?
get_mut_load(t) ==
    /\ ~crashed
    /\ UNCHANGED other_vars
    /\ pc[t] = "load"
    /\ LET got == load_for_site(disk, site[t])
       IN  IF IsSome(got)
           THEN /\ loaded' = [loaded EXCEPT ![t] = Unwrap(got)]
                /\ pc' = [pc EXCEPT ![t] = "insert"]
                /\ UNCHANGED result
           ELSE /\ pc' = [pc EXCEPT ![t] = "idle"]
                /\ result' = [result EXCEPT ![t] = "Err(load)"]
                /\ UNCHANGED loaded
    /\ UNCHANGED <<clock, disk, caches, crashed, site, now, req, res, entry,
                   requests, last_request, save_vars>>

\* get_mut_insert with insert for try_insert: an entry already there is
\* replaced, its Mutex with it.
get_mut_insert_overwrites(t) ==
    /\ ~crashed
    /\ UNCHANGED other_vars
    /\ pc[t] = "insert"
    /\ caches' = [caches EXCEPT ![site[t]] =
                    Some([cache |-> loaded[t], locked_by |-> None])]
    /\ pc' = [pc EXCEPT ![t] = "lock"]
    /\ UNCHANGED <<clock, disk, crashed, site, loaded, now, req, res, result,
                   entry, requests, last_request, save_vars>>

\* self.caches.try_insert(index.name.clone(), Mutex::new(cache), guard).unwrap()
get_mut_insert(t) ==
    /\ ~crashed
    /\ UNCHANGED other_vars
    /\ pc[t] = "insert"
    /\ IF IsSome(caches[site[t]])
       THEN /\ crashed' = TRUE
            /\ UNCHANGED <<caches, pc>>
       ELSE /\ caches' = [caches EXCEPT ![site[t]] =
                            Some([cache |-> loaded[t], locked_by |-> None])]
            /\ pc' = [pc EXCEPT ![t] = "lock"]
            /\ UNCHANGED crashed
    /\ UNCHANGED <<clock, disk, site, loaded, now, req, res, result, entry,
                   requests, last_request, save_vars>>

\* entry.lock().await
get_mut_lock(t) ==
    /\ ~crashed
    /\ UNCHANGED other_vars
    /\ pc[t] = "lock"
    /\ mutex_free(site[t])
    /\ caches' = [caches EXCEPT ![site[t]] =
                    Some([Unwrap(@) EXCEPT !.locked_by = Some(t)])]
    /\ pc' = [pc EXCEPT ![t] = "query"]
    /\ UNCHANGED <<clock, disk, crashed, site, loaded, now, req, res, result,
                   entry, requests, last_request, save_vars>>

\* The handle goes out of scope at the end of the caller's loop body, and
\* with it the locals of the call.
DropHandle(t) ==
    /\ pc[t] = "returned"
    /\ caches' = [caches EXCEPT ![site[t]] =
                    Some([Unwrap(@) EXCEPT !.locked_by = None])]
    /\ pc' = [pc EXCEPT ![t] = "idle"]
    /\ now' = [now EXCEPT ![t] = 0]
    /\ req' = [req EXCEPT ![t] = None]
    /\ res' = [res EXCEPT ![t] = NoResponse]
    /\ result' = [result EXCEPT ![t] = "none"]
    /\ entry' = [entry EXCEPT ![t] = DefaultSiteCache]
    /\ requests' = [requests EXCEPT ![t] = 0]
    /\ loaded' = [loaded EXCEPT ![t] = DefaultSiteCache]
    /\ site' = [site EXCEPT ![t] = SiteA]
    /\ UNCHANGED <<clock, disk, crashed, last_request, save_vars>>

drop_handle(t) ==
    /\ ~crashed
    /\ UNCHANGED other_vars
    /\ DropHandle(t)

\* ------------------------------------------------------------ query_site

Ok == "Ok"
ErrSend == "Err(Error fetching feed)"
ErrHeaders == "Err(Error parsing HTTP headers)"
ErrBody == "Err(Failed to read feed contents)"
ErrUnexpectedStatus == "Err(Received unexpected status code)"
ErrErrorStatus == "Err(Received error status code)"

Enter(t) ==
    /\ now' = [now EXCEPT ![t] = clock]
    /\ entry' = [entry EXCEPT ![t] = CacheOf(t)]

\* "has been fetched recently, will not be fetched again": return Ok(()).
query_site_skip_recent(t) ==
    /\ ~crashed
    /\ UNCHANGED other_vars
    /\ pc[t] = "query"
    /\ fetched_recently(CacheOf(t), clock)
    /\ Enter(t)
    /\ Return(t, Ok)
    /\ UNCHANGED <<clock, disk, caches, crashed, site, loaded, req, res,
                   requests, last_request, save_vars>>

\* "has 429 `retry-after`ed us": return Ok(()).
query_site_skip_retry(t) ==
    /\ ~crashed
    /\ UNCHANGED other_vars
    /\ pc[t] = "query"
    /\ ~fetched_recently(CacheOf(t), clock)
    /\ retry_after_pending(CacheOf(t), clock)
    /\ Enter(t)
    /\ Return(t, Ok)
    /\ UNCHANGED <<clock, disk, caches, crashed, site, loaded, req, res,
                   requests, last_request, save_vars>>

\* Build the request and dispatch it: req.send()
query_site_send(t) ==
    /\ ~crashed
    /\ UNCHANGED other_vars
    /\ pc[t] = "query"
    /\ ~fetched_recently(CacheOf(t), clock)
    /\ ~retry_after_pending(CacheOf(t), clock)
    /\ Enter(t)
    /\ req' = [req EXCEPT ![t] = conditional_header(CacheOf(t))]
    /\ requests' = [requests EXCEPT ![t] = @ + 1]
    /\ last_request' = [last_request EXCEPT ![site[t]].sent = Some(clock)]
    /\ pc' = [pc EXCEPT ![t] = "sent"]
    /\ UNCHANGED <<clock, disk, caches, crashed, site, loaded, res, result,
                   save_vars>>

\* req.send().await fails: context("Error fetching feed")?
query_site_send_error(t) ==
    /\ ~crashed
    /\ UNCHANGED other_vars
    /\ pc[t] = "sent"
    /\ Return(t, ErrSend)
    /\ UNCHANGED <<clock, disk, caches, crashed, site, loaded, now, req, res,
                   entry, requests, last_request, save_vars>>

\* StatusCode::OK, up to the await of the body: the headers are collected and
\* stored.
query_site_ok_headers(t, r) ==
    /\ ~crashed
    /\ UNCHANGED other_vars
    /\ pc[t] = "sent"
    /\ r.status = 200
    /\ res' = [res EXCEPT ![t] = r]
    /\ LET headers == collect_headers(r.headers)
       IN  IF IsSome(headers)
           THEN /\ SetCache(t, [CacheOf(t) EXCEPT !.last_headers = headers])
                /\ pc' = [pc EXCEPT ![t] = "body"]
                /\ UNCHANGED result
           ELSE /\ Return(t, ErrHeaders)
                /\ UNCHANGED caches
    /\ UNCHANGED <<clock, disk, crashed, site, loaded, now, req, entry,
                   requests, last_request, save_vars>>

\* query_site_ok_body stamping the fetch with the time read on entry.
query_site_ok_body_entry_time(t, read_ok) ==
    /\ ~crashed
    /\ UNCHANGED other_vars
    /\ pc[t] = "body"
    /\ IF read_ok
       THEN /\ SetCache(t, [CacheOf(t) EXCEPT !.last_body = Some(res[t].body),
                                               !.last_fetch_time = Some(now[t]),
                                               !.last_retry_after = None])
            /\ last_request' =
                 [last_request EXCEPT ![site[t]].completed = Some(now[t])]
            /\ Return(t, Ok)
       ELSE /\ Return(t, ErrBody)
            /\ UNCHANGED <<caches, last_request>>
    /\ UNCHANGED <<clock, disk, crashed, site, loaded, now, req, res, entry,
                   requests, save_vars>>

\* StatusCode::OK, from res.text().await on.
query_site_ok_body(t, read_ok) ==
    /\ ~crashed
    /\ UNCHANGED other_vars
    /\ pc[t] = "body"
    /\ IF read_ok
       THEN /\ SetCache(t, [CacheOf(t) EXCEPT !.last_body = Some(res[t].body),
                                               !.last_fetch_time = Some(clock),
                                               !.last_retry_after = None])
            /\ last_request' =
                 [last_request EXCEPT ![site[t]].completed = Some(now[t])]
            /\ Return(t, Ok)
       ELSE /\ Return(t, ErrBody)
            /\ UNCHANGED <<caches, last_request>>
    /\ UNCHANGED <<clock, disk, crashed, site, loaded, now, req, res, entry,
                   requests, save_vars>>

\* query_site_not_modified without the update of last_fetch_time.
query_site_not_modified_no_stamp(t, r) ==
    /\ ~crashed
    /\ UNCHANGED other_vars
    /\ pc[t] = "sent"
    /\ r.status = 304
    /\ res' = [res EXCEPT ![t] = r]
    /\ last_request' = [last_request EXCEPT ![site[t]].completed = Some(now[t])]
    /\ Return(t, Ok)
    /\ UNCHANGED <<clock, disk, caches, crashed, site, loaded, now, req, entry,
                   requests, save_vars>>

\* query_site_not_modified clearing the backoff as the 200 arm does.
query_site_not_modified_clears_retry(t, r) ==
    /\ ~crashed
    /\ UNCHANGED other_vars
    /\ pc[t] = "sent"
    /\ r.status = 304
    /\ res' = [res EXCEPT ![t] = r]
    /\ SetCache(t, [CacheOf(t) EXCEPT !.last_fetch_time = Some(clock),
                                      !.last_retry_after = None])
    /\ last_request' = [last_request EXCEPT ![site[t]].completed = Some(now[t])]
    /\ Return(t, Ok)
    /\ UNCHANGED <<clock, disk, crashed, site, loaded, now, req, entry,
                   requests, save_vars>>

\* StatusCode::NOT_MODIFIED
query_site_not_modified(t, r) ==
    /\ ~crashed
    /\ UNCHANGED other_vars
    /\ pc[t] = "sent"
    /\ r.status = 304
    /\ res' = [res EXCEPT ![t] = r]
    /\ SetCache(t, [CacheOf(t) EXCEPT !.last_fetch_time = Some(clock)])
    /\ last_request' = [last_request EXCEPT ![site[t]].completed = Some(now[t])]
    /\ Return(t, Ok)
    /\ UNCHANGED <<clock, disk, crashed, site, loaded, now, req, entry,
                   requests, save_vars>>

\* query_site_too_many_requests dropping the backoff on a malformed header.
query_site_too_many_requests_resets(t, r) ==
    /\ ~crashed
    /\ UNCHANGED other_vars
    /\ pc[t] = "sent"
    /\ r.status = 429
    /\ res' = [res EXCEPT ![t] = r]
    /\ LET retry_after == header_get(r.headers, "retry-after")
           interval == parse_retry_after(Unwrap(retry_after))
           until == system_time_add(clock, Unwrap(interval))
       IN  IF ~IsSome(retry_after)
           THEN /\ Return(t, Ok)
                /\ UNCHANGED <<caches, crashed>>
           ELSE IF ~IsSome(interval)
           THEN /\ SetCache(t, [CacheOf(t) EXCEPT !.last_retry_after = None])
                /\ Return(t, Ok)
                /\ UNCHANGED crashed
           ELSE IF ~IsSome(until)
           THEN /\ crashed' = TRUE
                /\ UNCHANGED <<caches, pc, result>>
           ELSE /\ SetCache(t, [CacheOf(t) EXCEPT !.last_retry_after = until])
                /\ Return(t, Ok)
                /\ UNCHANGED crashed
    /\ UNCHANGED <<clock, disk, site, loaded, now, req, entry, requests,
                   last_request, save_vars>>

\* StatusCode::TOO_MANY_REQUESTS
query_site_too_many_requests(t, r) ==
    /\ ~crashed
    /\ UNCHANGED other_vars
    /\ pc[t] = "sent"
    /\ r.status = 429
    /\ res' = [res EXCEPT ![t] = r]
    /\ LET retry_after == header_get(r.headers, "retry-after")
           interval == parse_retry_after(Unwrap(retry_after))
           until == system_time_add(clock, Unwrap(interval))
       IN  IF ~IsSome(retry_after) \/ ~IsSome(interval)
           THEN /\ Return(t, Ok)
                /\ UNCHANGED <<caches, crashed>>
           ELSE IF ~IsSome(until)
           THEN /\ crashed' = TRUE
                /\ UNCHANGED <<caches, pc, result>>
           ELSE /\ SetCache(t, [CacheOf(t) EXCEPT !.last_retry_after = until])
                /\ Return(t, Ok)
                /\ UNCHANGED crashed
    /\ UNCHANGED <<clock, disk, site, loaded, now, req, entry, requests,
                   last_request, save_vars>>

\* query_site_other_status recording the attempt in last_fetch_time.
query_site_other_status_stamps(t, r) ==
    /\ ~crashed
    /\ UNCHANGED other_vars
    /\ pc[t] = "sent"
    /\ r.status \notin {200, 304, 429}
    /\ res' = [res EXCEPT ![t] = r]
    /\ SetCache(t, [CacheOf(t) EXCEPT !.last_fetch_time = Some(clock)])
    /\ Return(t, IF ~is_client_error(r.status) /\ ~is_server_error(r.status)
                 THEN ErrUnexpectedStatus ELSE ErrErrorStatus)
    /\ UNCHANGED <<clock, disk, crashed, site, loaded, now, req, entry,
                   requests, last_request, save_vars>>

\* Every other status: bail!
query_site_other_status(t, r) ==
    /\ ~crashed
    /\ UNCHANGED other_vars
    /\ pc[t] = "sent"
    /\ r.status \notin {200, 304, 429}
    /\ res' = [res EXCEPT ![t] = r]
    /\ Return(t, IF ~is_client_error(r.status) /\ ~is_server_error(r.status)
                 THEN ErrUnexpectedStatus ELSE ErrErrorStatus)
    /\ UNCHANGED <<clock, disk, caches, crashed, site, loaded, now, req, entry,
                   requests, last_request, save_vars>>

\* One call of get_mut followed by query_site, by task t for site s, the
\* server answering from `responses`.
Fetch(t, s, responses) ==
    \/ get_mut_get(t, s)
    \/ get_mut_load(t)
    \/ get_mut_insert(t)
    \/ get_mut_lock(t)
    \/ query_site_skip_recent(t)
    \/ query_site_skip_retry(t)
    \/ query_site_send(t)
    \/ query_site_send_error(t)
    \/ \E r \in responses :
         \/ query_site_ok_headers(t, r)
         \/ query_site_not_modified(t, r)
         \/ query_site_too_many_requests(t, r)
         \/ query_site_other_status(t, r)
    \/ \E read_ok \in BOOLEAN : query_site_ok_body(t, read_ok)
    \/ drop_handle(t)

\* --------------------------------------------------- CacheManager::save

UnlockedBy(holder, cs, s) ==
    IF IsSome(cs[s]) /\ Unwrap(cs[s]).locked_by = Some(holder)
    THEN Some([Unwrap(cs[s]) EXCEPT !.locked_by = None])
    ELSE cs[s]

SaveHolder(s) == "save"

\* for (site, cache) in caches.iter() { saves.push(async move { ... }) }
save_begin ==
    /\ ~crashed
    /\ UNCHANGED other_vars
    /\ save_pc = "idle"
    /\ saves' = [s \in Sites |->
                   IF IsSome(caches[s]) THEN [stage |-> "lock", bytes |-> <<>>]
                   ELSE NoSave]
    /\ save_pc' = "polling"
    /\ UNCHANGED <<clock, disk, caches, crashed, task_vars, last_request,
                   save_result>>

\* save_lock reading the record without waiting for its Mutex.
save_lock_unguarded(s) ==
    /\ ~crashed
    /\ UNCHANGED other_vars
    /\ save_pc = "polling"
    /\ saves[s].stage = "lock"
    /\ caches' = [caches EXCEPT ![s] =
                    Some([Unwrap(@) EXCEPT !.locked_by = Some(SaveHolder(s))])]
    /\ saves' = [saves EXCEPT ![s] =
                   [stage |-> "create",
                    bytes |-> encode_site_cache(Unwrap(caches[s]).cache)]]
    /\ UNCHANGED <<clock, disk, crashed, task_vars, last_request, save_pc,
                   save_result>>

\* One pushed future: cache.lock().await, then save_for_site up to the await
\* of File::create, the record serialized and compressed.
save_lock(s) ==
    /\ ~crashed
    /\ UNCHANGED other_vars
    /\ save_pc = "polling"
    /\ saves[s].stage = "lock"
    /\ mutex_free(s)
    /\ caches' = [caches EXCEPT ![s] =
                    Some([Unwrap(@) EXCEPT !.locked_by = Some(SaveHolder(s))])]
    /\ saves' = [saves EXCEPT ![s] =
                   [stage |-> "create",
                    bytes |-> encode_site_cache(Unwrap(caches[s]).cache)]]
    /\ UNCHANGED <<clock, disk, crashed, task_vars, last_request, save_pc,
                   save_result>>

\* File::create(&path).await: the file is there and empty, or the future ends
\* with "Failed to save cache for {site}" and drops its guard.
save_create(s, created) ==
    /\ ~crashed
    /\ UNCHANGED other_vars
    /\ save_pc = "polling"
    /\ saves[s].stage = "create"
    /\ IF created
       THEN /\ disk' = [disk EXCEPT ![cache_file_for_name(s)] = Some(<<>>)]
            /\ saves' = [saves EXCEPT ![s].stage = "write"]
            /\ UNCHANGED caches
       ELSE /\ saves' = [saves EXCEPT ![s].stage = "err"]
            /\ caches' = [caches EXCEPT ![s] = UnlockedBy(SaveHolder(s), caches, s)]
            /\ UNCHANGED disk
    /\ UNCHANGED <<clock, crashed, task_vars, last_request, save_pc, save_result>>

\* .write_all(&compressed).await: the future ends and drops its guard.
save_write(s, written) ==
    /\ ~crashed
    /\ UNCHANGED other_vars
    /\ save_pc = "polling"
    /\ saves[s].stage = "write"
    /\ IF written
       THEN /\ disk' = [disk EXCEPT ![cache_file_for_name(s)] = Some(saves[s].bytes)]
            /\ saves' = [saves EXCEPT ![s].stage = "ok"]
       ELSE /\ saves' = [saves EXCEPT ![s].stage = "err"]
            /\ UNCHANGED disk
    /\ caches' = [caches EXCEPT ![s] = UnlockedBy(SaveHolder(s), caches, s)]
    /\ UNCHANGED <<clock, crashed, task_vars, last_request, save_pc, save_result>>

\* saves.next().await yields an Ok: res? goes on.
save_next_ok(s) ==
    /\ ~crashed
    /\ UNCHANGED other_vars
    /\ save_pc = "polling"
    /\ saves[s].stage = "ok"
    /\ saves' = [saves EXCEPT ![s].stage = "taken"]
    /\ UNCHANGED <<clock, disk, caches, crashed, task_vars, last_request,
                   save_pc, save_result>>

InFlight(s) == saves[s].stage \in {"lock", "create", "write"}

\* saves.next().await yields an Err: res? returns it, and `saves` is dropped
\* with the futures still in it.  The file operation a dropped future was
\* waiting for may still take place (for the sites in `landed`).
save_next_err(s, landed) ==
    /\ ~crashed
    /\ UNCHANGED other_vars
    /\ save_pc = "polling"
    /\ saves[s].stage = "err"
    /\ landed \subseteq { x \in Sites : saves[x].stage \in {"create", "write"} }
    /\ save_result' = [kind |-> "Err", site |-> s]
    /\ save_pc' = "returned"
    /\ saves' = [x \in Sites |->
                   IF InFlight(x) THEN [saves[x] EXCEPT !.stage = "dropped"]
                   ELSE saves[x]]
    /\ caches' = [x \in Sites |-> UnlockedBy(SaveHolder(x), caches, x)]
    /\ disk' = [f \in Files |->
                  IF \E x \in landed : cache_file_for_name(x) = f
                  THEN LET x == CHOOSE x \in landed : cache_file_for_name(x) = f
                       IN  IF saves[x].stage = "create" THEN Some(<<>>)
                           ELSE Some(saves[x].bytes)
                  ELSE disk[f]]
    /\ UNCHANGED <<clock, crashed, task_vars, last_request>>

\* saves.next().await yields None: Ok(())
save_return_ok ==
    /\ ~crashed
    /\ UNCHANGED other_vars
    /\ save_pc = "polling"
    /\ \A s \in Sites : saves[s].stage \in {"none", "taken"}
    /\ save_result' = [kind |-> "Ok", site |-> <<>>]
    /\ save_pc' = "returned"
    /\ UNCHANGED <<clock, disk, caches, crashed, task_vars, last_request, saves>>

Save ==
    \/ save_begin
    \/ \E s \in Sites :
         \/ save_lock(s)
         \/ \E created \in BOOLEAN : save_create(s, created)
         \/ \E written \in BOOLEAN : save_write(s, written)
         \/ save_next_ok(s)
         \/ \E landed \in SUBSET Sites : save_next_err(s, landed)
    \/ save_return_ok

\* -------------------------------------------------- CacheManager::feeds

\* feed_rs::parser::parse(...).map_err(anyhow::Error::from): Ok(feed) or Err.
feed_rs_parse(body) ==
    IF body = Feed1 THEN [ok |-> TRUE, feed |-> body]
    ELSE [ok |-> FALSE, feed |-> ""]

\* feeds_next yielding nothing for a body that does not parse.
feeds_next_drops_errors(s) ==
    /\ ~crashed
    /\ main_pc = "feeds"
    /\ IsSome(caches[s])
    /\ s \notin feeds_seen
    /\ mutex_free(s)
    /\ feeds_seen' = feeds_seen \cup {s}
    /\ LET last_body == Unwrap(caches[s]).cache.last_body
       IN  feeds_items' =
             IF IsSome(last_body) /\ feed_rs_parse(Unwrap(last_body)).ok
             THEN Append(feeds_items,
                         [site |-> s, res |-> feed_rs_parse(Unwrap(last_body))])
             ELSE feeds_items
    /\ UNCHANGED <<clock, disk, caches, crashed, task_vars, last_request,
                   save_vars, main_vars, store_vars>>

\* The stream's next entry: cache.lock().await, then last_body.as_ref()? ends
\* the closure with None (filter_map yields nothing), or the body is parsed
\* and the pair yielded; the guard is dropped at the end of the expression.
feeds_next(s) ==
    /\ ~crashed
    /\ main_pc = "feeds"
    /\ IsSome(caches[s])
    /\ s \notin feeds_seen
    /\ mutex_free(s)
    /\ feeds_seen' = feeds_seen \cup {s}
    /\ LET last_body == Unwrap(caches[s]).cache.last_body
       IN  feeds_items' =
             IF IsSome(last_body)
             THEN Append(feeds_items,
                         [site |-> s, res |-> feed_rs_parse(Unwrap(last_body))])
             ELSE feeds_items
    /\ UNCHANGED <<clock, disk, caches, crashed, task_vars, last_request,
                   save_vars, main_vars, store_vars>>

\* The stream is exhausted: main's loop over the feeds ends and main returns.
feeds_end ==
    /\ ~crashed
    /\ main_pc = "feeds"
    /\ \A s \in Sites : IsSome(caches[s]) => s \in feeds_seen
    /\ main_pc' = "exit_ok"
    /\ UNCHANGED <<clock, disk, caches, crashed, task_vars, last_request,
                   save_vars, main_i, prev_run, feeds_vars, store_vars>>

\* ------------------------------------------------------------------ main

\* config.sites, in the order of the configuration file.
SiteOrder == <<SiteA, SiteB>>

\* let cache = caches.get_mut(site): the lookup.
main_get_mut ==
    /\ main_pc = "run"
    /\ main_i <= Len(SiteOrder)
    /\ result[T1] = "none"
    /\ get_mut_get(T1, SiteOrder[main_i])

\* caches.get_mut(site).with_context(...)? on a failed load: main returns.
main_load_failed ==
    /\ ~crashed
    /\ main_pc = "run"
    /\ pc[T1] = "idle"
    /\ result[T1] = "Err(load)"
    /\ main_pc' = "exit_err_load"
    /\ UNCHANGED <<clock, disk, caches, crashed, task_vars, last_request,
                   save_vars, main_i, prev_run, feeds_vars, store_vars>>

\* cache::query_site(...).context("Error fetching feed")? on Ok: the loop body
\* ends and the loop goes on with the next site.
main_iter_ok ==
    /\ ~crashed
    /\ main_pc = "run"
    /\ result[T1] = Ok
    /\ DropHandle(T1)
    /\ main_i' = main_i + 1
    /\ UNCHANGED <<main_pc, prev_run, feeds_vars, store_vars>>

\* cache::query_site(...).context("Error fetching feed")? on Err: main returns
\* the error.
main_iter_err ==
    /\ ~crashed
    /\ main_pc = "run"
    /\ result[T1] # Ok
    /\ DropHandle(T1)
    /\ main_pc' = "exit_err_fetch"
    /\ UNCHANGED <<main_i, prev_run, feeds_vars, store_vars>>

\* caches.save(): entered once the loop over the sites has ended.
main_save ==
    /\ main_pc = "run"
    /\ main_i = Len(SiteOrder) + 1
    /\ save_begin

\* caches.save().context("Error saving caches")?: main returns the error, or
\* goes on to the feeds.
main_save_returned ==
    /\ ~crashed
    /\ main_pc = "run"
    /\ save_pc = "returned"
    /\ main_pc' = IF save_result.kind = "Err" THEN "exit_err_save" ELSE "feeds"
    /\ UNCHANGED <<clock, disk, caches, crashed, task_vars, last_request,
                   save_vars, main_i, prev_run, feeds_vars, store_vars>>

MainExits == {"exit_ok", "exit_err_load", "exit_err_fetch", "exit_err_save"}

\* The process has ended and the program is started again: a new manager with
\* no record loaded and no request sent, the store and the clock as they are.
\* prev_run keeps the records of the sites whose loop body ended with Ok.
main_restart ==
    /\ ~crashed
    /\ main_pc \in MainExits
    /\ prev_run' = [s \in Sites |->
                      IF \E i \in 1..(main_i - 1) : SiteOrder[i] = s
                      THEN Some(Unwrap(caches[s]).cache) ELSE None]
    /\ caches' = [s \in Sites |-> None]
    /\ pc' = [t \in Tasks |-> "idle"]
    /\ site' = [t \in Tasks |-> SiteA]
    /\ loaded' = [t \in Tasks |-> DefaultSiteCache]
    /\ now' = [t \in Tasks |-> 0]
    /\ req' = [t \in Tasks |-> None]
    /\ res' = [t \in Tasks |-> NoResponse]
    /\ result' = [t \in Tasks |-> "none"]
    /\ entry' = [t \in Tasks |-> DefaultSiteCache]
    /\ requests' = [t \in Tasks |-> 0]
    /\ save_pc' = "idle"
    /\ saves' = [s \in Sites |-> NoSave]
    /\ save_result' = NoResult
    /\ main_pc' = "run"
    /\ main_i' = 1
    /\ feeds_seen' = {}
    /\ feeds_items' = <<>>
    /\ last_request' = [s \in Sites |-> [sent |-> None, completed |-> None]]
    /\ UNCHANGED <<clock, disk, crashed, store_vars>>

\* ------------------------------------- save_for_site and load_for_site

\* Characters of a site name: an ASCII letter in both cases, a digit, the
\* three separators, a character that is dropped, a letter whose lower case
\* is two characters, and a letter without case.
NameChars == {"N", "n", "1", " ", "_", "-", ".", "U+0130", "U+4E2D"}

Names == UNION { [1..n -> NameChars] : n \in 0..MaxNameLen }

\* Records with every field absent and present.
RoundTripCaches ==
    { SiteCache(ra, h, b, ft) :
        ra \in {None, Some(0), Some(SysTimeMax)},
        h \in {None, Some([k \in {} |-> E1]), Some([k \in {"etag"} |-> E1]),
               Some([k \in {"etag", "last-modified"} |->
                       IF k = "etag" THEN E2 ELSE L1])},
        b \in {None, Some(""), Some(Feed1)},
        ft \in {None, Some(3)} }

\* self.save_for_site(cache_dir, site_name).await: File::create truncates the
\* file, write_all fills it; either may fail.
store_save(created, written) ==
    /\ ~crashed
    /\ st_pc = "init"
    /\ disk' = IF ~created THEN disk
               ELSE [disk EXCEPT ![cache_file_for_name(st_name)] =
                       IF written THEN Some(encode_site_cache(st_cache))
                       ELSE Some(<<>>)]
    /\ st_saved' = (created /\ written)
    /\ st_pc' = "saved"
    /\ UNCHANGED <<clock, caches, crashed, task_vars, last_request, save_vars,
                   main_vars, feeds_vars, st_name, st_cache, st_loaded>>

\* SiteCache::load_for_site(cache_dir, index).await
store_load ==
    /\ ~crashed
    /\ st_pc = "saved"
    /\ st_loaded' = load_for_site(disk, st_name)
    /\ st_pc' = "loaded"
    /\ UNCHANGED <<clock, disk, caches, crashed, task_vars, last_request,
                   save_vars, main_vars, feeds_vars, st_name, st_cache,
                   st_saved>>

\* ------------------------------------------------------- specifications

\* One task fetching one site over and over, against every response.
Init ==
    /\ InitWith(StoredFiles)
    /\ disk[cache_file_for_name(SiteB)] = None

Next ==
    \/ Tick
    \/ Fetch(T1, SiteA, Responses)

Spec == Init /\ [][Next]_vars

\* Two tasks fetching two sites concurrently while save runs, against a
\* server that answers 200 or not at all.
ManagerResponses == { Response(200, HdrEtag, Feed1) }

ManagerFiles == {None, Some(<<>>)}

InitManager ==
    /\ InitWith(ManagerFiles)
    /\ disk[cache_file_for_name(SiteA)] = None

FetchManager(t, s) ==
    \/ get_mut_get(t, s)
    \/ get_mut_load(t)
    \/ get_mut_insert(t)
    \/ get_mut_lock(t)
    \/ query_site_skip_recent(t)
    \/ query_site_send(t)
    \/ \E r \in ManagerResponses : query_site_ok_headers(t, r)
    \/ \E read_ok \in BOOLEAN : query_site_ok_body(t, read_ok)
    \/ drop_handle(t)

NextManager ==
    \/ \E t \in Tasks : \E s \in Sites : FetchManager(t, s)
    \/ Save

SpecManager == InitManager /\ [][NextManager]_vars

\* The program run again and again over its two sites, one after the other,
\* within one tick of the clock.
MainResponses ==
    { Response(200, HdrEtag, Feed1), Response(200, HdrEtag, Feed2),
      Response(304, HdrEtag, ""),
      Response(429, << <<"retry-after", <<"2">> >> >>, ""),
      Response(500, HdrNone, "") }

InitMain ==
    /\ InitWith({None})

NextMain ==
    \/ main_get_mut
    \/ get_mut_load(T1)
    \/ main_load_failed
    \/ get_mut_insert(T1)
    \/ get_mut_lock(T1)
    \/ query_site_skip_recent(T1)
    \/ query_site_skip_retry(T1)
    \/ query_site_send(T1)
    \/ query_site_send_error(T1)
    \/ \E r \in MainResponses :
         \/ query_site_ok_headers(T1, r)
         \/ query_site_not_modified(T1, r)
         \/ query_site_too_many_requests(T1, r)
         \/ query_site_other_status(T1, r)
    \/ \E read_ok \in BOOLEAN : query_site_ok_body(T1, read_ok)
    \/ main_iter_ok
    \/ main_iter_err
    \/ main_save
    \/ \E s \in Sites :
         \/ save_lock(s)
         \/ \E created \in BOOLEAN : save_create(s, created)
         \/ \E written \in BOOLEAN : save_write(s, written)
         \/ save_next_ok(s)
         \/ \E landed \in SUBSET Sites : save_next_err(s, landed)
    \/ save_return_ok
    \/ main_save_returned
    \/ \E s \in Sites : feeds_next(s)
    \/ feeds_end
    \/ main_restart

SpecMain == InitMain /\ [][NextMain]_vars

\* One record saved under one name and loaded back, the file absent or
\* holding an older record before.
InitStore ==
    /\ InitProcess
    /\ st_pc = "init"
    /\ st_name \in Names
    /\ st_cache \in RoundTripCaches
    /\ st_saved = FALSE
    /\ st_loaded = None
    /\ disk \in [{cache_file_for_name(st_name)} ->
                    {None} \cup { Some(encode_site_cache(c)) : c \in StoredCaches }]

NextStore ==
    \/ \E created, written \in BOOLEAN : store_save(created, written)
    \/ store_load

SpecStore == InitStore /\ [][NextStore]_vars

\* ------------------------------------------------------------ the claims

InCall(t) == pc[t] \in {"sent", "body", "returned"}

\* The record of task t's site after the step.
CacheOfNext(t) == Unwrap(caches'[site[t]]).cache

\* C1: a call that finds last_fetch_time + min_fetch_interval > now dispatches
\* no request, returns Ok and leaves the four fields of the record as they were.
C1_RecentFetchSkips ==
    \A t \in Tasks :
        ( /\ InCall(t)
          /\ IsSome(entry[t].last_fetch_time)
          /\ Unwrap(entry[t].last_fetch_time) + min_fetch_interval > now[t] )
        => /\ pc[t] = "returned"
           /\ result[t] = Ok
           /\ requests[t] = 0
           /\ CacheOf(t) = entry[t]

C1_Witness ==
    \E t \in Tasks :
        /\ pc[t] = "returned"
        /\ result[t] = Ok
        /\ requests[t] = 0
        /\ IsSome(entry[t].last_fetch_time)
        /\ Unwrap(entry[t].last_fetch_time) + min_fetch_interval > now[t]
        /\ Unwrap(entry[t].last_fetch_time) < now[t]

\* C2: a call that finds last_retry_after present and >= now dispatches no
\* request and returns Ok, whatever the other fields hold.
C2_BackoffSkips ==
    \A t \in Tasks :
        ( /\ InCall(t)
          /\ IsSome(entry[t].last_retry_after)
          /\ Unwrap(entry[t].last_retry_after) >= now[t] )
        => /\ pc[t] = "returned"
           /\ result[t] = Ok
           /\ requests[t] = 0

\* The backoff ends exactly now and no recent fetch precedes it.
C2_Witness ==
    \E t \in Tasks :
        /\ pc[t] = "returned"
        /\ result[t] = Ok
        /\ requests[t] = 0
        /\ IsSome(entry[t].last_retry_after)
        /\ Unwrap(entry[t].last_retry_after) = now[t]
        /\ ~fetched_recently(entry[t], now[t])
        /\ IsSome(entry[t].last_headers)

Sends(t) == pc[t] = "query" /\ pc'[t] = "sent"

\* C3 as claimed: any two requests dispatched to one site are at least
\* min_fetch_interval apart, whatever the outcome of the earlier one.
C3_AnyTwoRequestsApart ==
    [][\A t \in Tasks :
         (Sends(t) /\ IsSome(last_request[site[t]].sent))
         => clock >= Unwrap(last_request[site[t]].sent) + min_fetch_interval]_vars

\* C3 as amended: a request is dispatched at least min_fetch_interval after
\* every earlier request to the site that was answered 200 (headers and body
\* read) or 304.
C3_RequestsApartAfterFetch ==
    [][\A t \in Tasks :
         (Sends(t) /\ IsSome(last_request[site[t]].completed))
         => clock >= Unwrap(last_request[site[t]].completed) + min_fetch_interval]_vars

\* A request follows a fetched one, with a failed request in between.
C3_Witness ==
    \E t \in Tasks :
        /\ pc[t] = "sent"
        /\ IsSome(last_request[site[t]].completed)
        /\ now[t] >= Unwrap(last_request[site[t]].completed) + min_fetch_interval
        /\ IsSome(entry[t].last_retry_after)

\* The mapping of a header list: every header name, each with the value
\* listed last for it.
IsHeaderMapping(m, h) ==
    /\ DOMAIN m = { h[i][1] : i \in DOMAIN h }
    /\ \A i \in DOMAIN h :
         (\A j \in DOMAIN h : h[j][1] = h[i][1] => j <= i) => m[h[i][1]] = h[i][2]

AllText(h) == \A i \in DOMAIN h : \A j \in DOMAIN h[i][2] : h[i][2][j] # OpaqueByte

\* C4 as claimed: whenever the response status is 200, on return the record
\* holds the response's headers and body, last_retry_after is absent and Ok
\* is returned.
C4_Every200Succeeds ==
    \A t \in Tasks :
        (pc[t] = "returned" /\ res[t].status = 200)
        => /\ result[t] = Ok
           /\ IsSome(CacheOf(t).last_headers)
           /\ IsHeaderMapping(Unwrap(CacheOf(t).last_headers), res[t].headers)
           /\ CacheOf(t).last_body = Some(res[t].body)
           /\ CacheOf(t).last_retry_after = None
           /\ IsSome(CacheOf(t).last_fetch_time)

\* C4 as amended: a 200 whose header values are all text and whose body is
\* read makes the call return Ok with last_headers the response's mapping,
\* last_body its body, last_fetch_time the time read once the body is in and
\* last_retry_after absent; a 200 with a header value that is not text, or
\* whose body cannot be read, makes the call return an error.
C4_Ok200UpdatesRecord ==
    [][\A t \in Tasks :
         (pc[t] \in {"sent", "body"} /\ pc'[t] = "returned" /\ res'[t].status = 200)
         => IF result'[t] = Ok
            THEN /\ AllText(res'[t].headers)
                 /\ IsSome(CacheOfNext(t).last_headers)
                 /\ IsHeaderMapping(Unwrap(CacheOfNext(t).last_headers),
                                    res'[t].headers)
                 /\ CacheOfNext(t).last_body = Some(res'[t].body)
                 /\ CacheOfNext(t).last_fetch_time = Some(clock)
                 /\ CacheOfNext(t).last_retry_after = None
            ELSE \/ result'[t] = ErrHeaders /\ ~AllText(res'[t].headers)
                 \/ result'[t] = ErrBody /\ AllText(res'[t].headers)]_vars

\* A 200 replaced older headers and body and cleared a backoff, the clock
\* having moved during the exchange.
C4_Witness ==
    \E t \in Tasks :
        /\ pc[t] = "returned"
        /\ res[t].status = 200
        /\ result[t] = Ok
        /\ IsSome(entry[t].last_retry_after)
        /\ IsSome(entry[t].last_body)
        /\ CacheOf(t).last_body # entry[t].last_body
        /\ CacheOf(t).last_headers # entry[t].last_headers
        /\ Unwrap(CacheOf(t).last_fetch_time) > now[t]

\* C5: a 304 makes the call return Ok with last_fetch_time the time read on
\* the response and last_headers, last_body and last_retry_after as they were.
C5_NotModifiedOnlyStamps ==
    [][\A t \in Tasks :
         (pc[t] = "sent" /\ res'[t].status = 304)
         => /\ pc'[t] = "returned"
            /\ result'[t] = Ok
            /\ CacheOf(t) = entry[t]
            /\ CacheOfNext(t) =
                 [entry[t] EXCEPT !.last_fetch_time = Some(clock)]]_vars

\* A 304 on a record that holds an expired backoff.
C5_Witness ==
    \E t \in Tasks :
        /\ pc[t] = "returned"
        /\ res[t].status = 304
        /\ IsSome(CacheOf(t).last_retry_after)
        /\ Unwrap(CacheOf(t).last_retry_after) < now[t]
        /\ IsSome(CacheOf(t).last_body)
        /\ Unwrap(CacheOf(t).last_fetch_time) > now[t]

\* C6: on return from any call, last_headers and last_body are both as they
\* were on entry, or both come from the 200 response of this call.
C6_HeadersBodyAtomic ==
    \A t \in Tasks :
        pc[t] = "returned"
        => \/ /\ CacheOf(t).last_headers = entry[t].last_headers
              /\ CacheOf(t).last_body = entry[t].last_body
           \/ /\ res[t].status = 200
              /\ IsSome(CacheOf(t).last_headers)
              /\ IsHeaderMapping(Unwrap(CacheOf(t).last_headers), res[t].headers)
              /\ CacheOf(t).last_body = Some(res[t].body)

\* A non-negative integer in decimal, with its value.
IsInteger(v) ==
    LET digits == IF v # <<>> /\ Head(v) = "+" THEN Tail(v) ELSE v
    IN  digits # <<>> /\ \A i \in DOMAIN digits : digits[i] \in Digits

RECURSIVE DecimalValue(_)
DecimalValue(v) ==
    IF v = <<>> THEN 0
    ELSE IF Head(v) = "+" THEN DecimalValue(Tail(v))
    ELSE DecimalValue(SubSeq(v, 1, Len(v) - 1)) * 10 + DigitValue(v[Len(v)])

RetryAfterOf(r) == header_get(r.headers, "retry-after")

\* C7: a 429 whose retry-after is a non-negative integer N makes the call
\* return Ok with last_retry_after the time read on the response plus N; a
\* later call at or before that time dispatches nothing, one after it (with
\* no recent fetch) dispatches a request.
C7_RetryAfterSetsBackoff ==
    [][\A t \in Tasks :
         /\ ( /\ pc[t] = "sent"
              /\ res'[t].status = 429
              /\ IsSome(RetryAfterOf(res'[t]))
              /\ IsInteger(Unwrap(RetryAfterOf(res'[t]))) )
            => /\ pc'[t] = "returned"
               /\ result'[t] = Ok
               /\ CacheOfNext(t).last_retry_after =
                    Some(clock + DecimalValue(Unwrap(RetryAfterOf(res'[t]))))
         /\ ( /\ pc[t] = "query"
              /\ pc'[t] # "query"
              /\ IsSome(CacheOf(t).last_retry_after) )
            => IF clock <= Unwrap(CacheOf(t).last_retry_after)
               THEN pc'[t] = "returned" /\ requests'[t] = 0
               ELSE fetched_recently(CacheOf(t), clock) \/ pc'[t] = "sent"]_vars

\* C8: a 429 whose retry-after is absent or not a non-negative integer makes
\* the call return Ok with last_retry_after (and the rest of the record) as
\* it was.
C8_MalformedRetryAfterIgnored ==
    [][\A t \in Tasks :
         ( /\ pc[t] = "sent"
           /\ res'[t].status = 429
           /\ \/ ~IsSome(RetryAfterOf(res'[t]))
              \/ ~IsInteger(Unwrap(RetryAfterOf(res'[t]))) )
         => /\ pc'[t] = "returned"
            /\ result'[t] = Ok
            /\ CacheOfNext(t) = entry[t]
            /\ CacheOf(t) = entry[t]]_vars

\* A 429 with "soon" on a record that holds an expired backoff.
C8_Witness ==
    \E t \in Tasks :
        /\ pc[t] = "returned"
        /\ res[t].status = 429
        /\ RetryAfterOf(res[t]) = Some(<<"s", "o", "o", "n">>)
        /\ result[t] = Ok
        /\ IsSome(CacheOf(t).last_retry_after)
        /\ Unwrap(CacheOf(t).last_retry_after) < now[t]

\* Who is inside a critical section on site s: the tasks that hold the handle
\* get_mut returned, and the future of save that holds the lock.
Holders(s) ==
    { t \in Tasks : site[t] = s /\ pc[t] \in {"query", "sent", "body", "returned"} }
    \cup (IF saves[s].stage \in {"create", "write"} THEN {SaveHolder(s)} ELSE {})

\* C9: at most one holder per site at any time; and a get_mut for a site
\* nobody holds can take its next step whatever is held on other sites.
C9_MutualExclusion ==
    /\ \A s \in Sites : Cardinality(Holders(s)) <= 1
    /\ \A t \in Tasks :
         (~crashed /\ pc[t] \in {"load", "insert", "lock"} /\ Holders(site[t]) = {})
         => ENABLED (get_mut_load(t) \/ get_mut_insert(t) \/ get_mut_lock(t))

\* One task holds a site, the other waits for the same site, and the other
\* site is held at the same time.
C9_Witness ==
    \E t \in Tasks, u \in Tasks, s \in Sites, o \in Sites :
        /\ t # u
        /\ s # o
        /\ t \in Holders(s)
        /\ site[u] = s
        /\ pc[u] = "lock"
        /\ Holders(o) # {}

\* C10: once save has returned, the save of every record it iterated over
\* has run to its end, every save that did not fail has written its file,
\* and an error names a site whose save failed.
C10_SaveAttemptsAll ==
    save_pc = "returned"
    => /\ \A s \in Sites :
            saves[s].stage # "none"
            => \/ saves[s].stage = "err"
               \/ /\ saves[s].stage \in {"ok", "taken"}
                  /\ disk[cache_file_for_name(s)] = Some(saves[s].bytes)
       /\ save_result.kind = "Err" => saves[save_result.site].stage = "err"
       /\ save_result.kind = "Ok" => \A s \in Sites : saves[s].stage # "err"

\* C18: the request query_site sends carries If-None-Match with the stored
\* etag when the record's lastHeaders has an etag (also when it has a
\* last-modified too), If-Modified-Since with the stored last-modified when it
\* has a last-modified and no etag, and neither when lastHeaders is absent or
\* has neither entry.
C18_ConditionalHeaderSelection ==
    \A t \in Tasks :
        pc[t] = "sent" =>
            LET h == entry[t].last_headers
                has(key) == IsSome(h) /\ key \in DOMAIN Unwrap(h)
            IN  /\ has("etag") =>
                       req[t] = Some(<<"if-none-match", Unwrap(h)["etag"]>>)
                /\ (~has("etag") /\ has("last-modified")) =>
                       req[t] = Some(<<"if-modified-since",
                                       Unwrap(h)["last-modified"]>>)
                /\ (~has("etag") /\ ~has("last-modified")) => req[t] = None

\* A request is out for a record that stores both an etag and a last-modified.
C18_Witness ==
    \E t \in Tasks :
        /\ pc[t] = "sent"
        /\ IsSome(entry[t].last_headers)
        /\ {"etag", "last-modified"} \subseteq DOMAIN Unwrap(entry[t].last_headers)
        /\ req[t] = Some(<<"if-none-match", E2>>)

\* C19: for a status other than 200, 304 and 429 query_site returns a failure:
\* the error-status kind when the status is 4xx or 5xx, the unexpected-status
\* kind for every other status.
C19_StatusClassification ==
    \A t \in Tasks :
        res[t].status \notin {0, 200, 304, 429} =>
            /\ pc[t] = "returned"
            /\ result[t] = IF res[t].status \in 400..599
                           THEN ErrErrorStatus ELSE ErrUnexpectedStatus

\* A 204 has been answered with the unexpected-status failure.
C19_Witness ==
    \E t \in Tasks :
        /\ res[t].status = 204
        /\ result[t] = ErrUnexpectedStatus

Undecodable(bytes) ==
    \/ ~IsSome(lz4_decompress(bytes))
    \/ ~IsSome(postcard_from_bytes(Unwrap(lz4_decompress(bytes))))

\* C20: the load in get_mut of a source whose file does not exist yields the
\* empty record and no error; the load of a file that fails decompression or
\* deserialization yields an error and no record is inserted into the manager.
C20_LoadAbsentOrCorrupt ==
    [][\A t \in Tasks :
         (pc[t] = "load" /\ pc'[t] # "load") =>
             LET file == disk[cache_file_for_name(site[t])]
             IN  /\ ~IsSome(file) =>
                        /\ pc'[t] = "insert"
                        /\ loaded'[t] = DefaultSiteCache
                        /\ result'[t] # "Err(load)"
                 /\ (IsSome(file) /\ Undecodable(Unwrap(file))) =>
                        /\ pc'[t] = "idle"
                        /\ result'[t] = "Err(load)"
                        /\ caches' = caches
                        /\ ~IsSome(caches'[site[t]])]_vars

\* get_mut has failed on a file that is no lz4 frame, and the manager holds no
\* record for the site.
C20_Witness ==
    \E t \in Tasks :
        /\ pc[t] = "idle"
        /\ result[t] = "Err(load)"
        /\ disk[cache_file_for_name(site[t])] = Some(<<"garbage">>)
        /\ ~IsSome(caches[site[t]])

\* C16: when two tasks call get_mut concurrently for the same source and no
\* record for it is loaded, neither call crashes and the store is read at most
\* once: no task finds an entry in its way when it inserts, and no two tasks
\* have each loaded a record to insert for the same source.
C16_ConcurrentFirstAccess ==
    /\ ~crashed
    /\ \A t, u \in Tasks :
         (t # u /\ pc[t] = "insert" /\ pc[u] = "insert") => site[t] # site[u]

\* Task t holds the handle of site s: it is between get_mut's lock and the drop
\* of the handle.
FetchHolds(t, s) ==
    site[t] = s /\ pc[t] \in {"query", "sent", "body", "returned"}

\* C17: save never reads a record while a fetch holds that record's handle:
\* while a future of save is serializing or writing a record, no task holds the
\* handle, and the bytes are those of the record as it stands, which no
\* query_site call is working on.
C17_SaveReadsUnderLock ==
    \A s \in Sites :
        saves[s].stage \in {"create", "write"} =>
            /\ \A t \in Tasks : ~FetchHolds(t, s)
            /\ saves[s].bytes = encode_site_cache(Unwrap(caches[s]).cache)

\* A future of save has serialized a fetched record while a task waits for
\* that record's handle.
C17_Witness ==
    \E s \in Sites : \E t \in Tasks :
        /\ saves[s].stage = "write"
        /\ IsSome(Unwrap(caches[s]).cache.last_body)
        /\ site[t] = s
        /\ pc[t] = "lock"

AsciiLowerCase(c) == IF c = "N" THEN "n" ELSE c

SameUpToAsciiCase(n, m) ==
    /\ Len(n) = Len(m)
    /\ \A i \in 1..Len(n) : AsciiLowerCase(n[i]) = AsciiLowerCase(m[i])

LowerCaseLetters == {"a", "b", "e", "n", "s", "w"}

\* C15: the file name of a source is the same for names that differ only in
\* the case of ASCII letters, and it consists only of lower-case letters,
\* digits and '-', followed by the fixed extension.
C15_FileNameCharset ==
    \A f \in DOMAIN disk :
        (st_pc # "init" /\ IsSome(disk[f])) =>
            /\ \A n \in Names :
                 SameUpToAsciiCase(n, st_name) => cache_file_for_name(n) = f
            /\ Len(f) >= 1
            /\ f[Len(f)] = ".lz4"
            /\ \A i \in 1..(Len(f) - 1) :
                 f[i] \in LowerCaseLetters \cup Digits \cup {"-"}

\* C11: a fetch failure for one source never prevents another source from
\* being processed in the run: when main has ended on a failed fetch, the
\* failed source was the last of config.sites, no source is left unvisited.
C11_FetchFailureIsolated ==
    main_pc = "exit_err_fetch" => main_i = Len(SiteOrder)

\* C12: every record change made by a fetch that completed during a run is in
\* the record the next run loads for that source, whatever the other sources'
\* fetches came to: the load succeeds and yields the record the source's
\* completed call left.
C12_StateSurvivesRestart ==
    \A s \in Sites :
        (site[T1] = s /\ IsSome(prev_run[s])) =>
            /\ pc[T1] = "insert" => loaded[T1] = Unwrap(prev_run[s])
            /\ ~(pc[T1] = "idle" /\ result[T1] = "Err(load)")

\* The number of items the stream has yielded for site s.
ItemsFor(s) == Cardinality({ i \in DOMAIN feeds_items : feeds_items[i].site = s })

\* C13: feeds yields exactly one item for each loaded record whose last_body
\* is present and none for a record whose last_body is absent; the item is the
\* source's name with the parser's result, a parse failure being yielded as an
\* error value.
C13_FeedsYieldsBodies ==
    /\ \A s \in Sites :
         LET visited == s \in feeds_seen \/ main_pc = "exit_ok"
             present == IsSome(caches[s]) /\ IsSome(Unwrap(caches[s]).cache.last_body)
         IN  /\ ItemsFor(s) = IF visited /\ present THEN 1 ELSE 0
             /\ \A i \in DOMAIN feeds_items :
                  feeds_items[i].site = s =>
                      LET body == Unwrap(Unwrap(caches[s]).cache.last_body)
                      IN  /\ feeds_items[i].res.ok = (body = Feed1)
                          /\ feeds_items[i].res.ok => feeds_items[i].res.feed = body
    /\ main_pc = "exit_ok" =>
         feeds_seen = { s \in Sites : IsSome(caches[s]) }

\* The stream has ended after yielding an error item for a body that is no
\* feed and nothing for a record without body.
C13_Witness ==
    /\ main_pc = "exit_ok"
    /\ Len(feeds_items) = 1
    /\ feeds_items[1].site = SiteA
    /\ ~feeds_items[1].res.ok
    /\ Unwrap(caches[SiteA]).cache.last_body = Some(Feed2)
    /\ IsSome(caches[SiteB])
    /\ ~IsSome(Unwrap(caches[SiteB]).cache.last_body)

\* C21: when query_site returns a failure because the transport failed or
\* because the status was neither 200, 304 nor 429, the four fields of the
\* record are as they were when the call was entered, and the record does not
\* make the minimum-interval check suppress a call made now.
C21_RecordUnchangedOnFailure ==
    \A t \in Tasks :
        (pc[t] = "returned"
         /\ result[t] \in {ErrSend, ErrUnexpectedStatus, ErrErrorStatus}) =>
            /\ CacheOf(t).last_fetch_time = entry[t].last_fetch_time
            /\ CacheOf(t).last_retry_after = entry[t].last_retry_after
            /\ CacheOf(t).last_headers = entry[t].last_headers
            /\ CacheOf(t).last_body = entry[t].last_body
            /\ IsSome(CacheOf(t).last_fetch_time) =>
                   Unwrap(CacheOf(t).last_fetch_time) + min_fetch_interval <= clock

\* A call on a record that holds headers, a body and a fetch time has been
\* answered 500.
C21_Witness ==
    \E t \in Tasks :
        /\ pc[t] = "returned"
        /\ result[t] = ErrErrorStatus
        /\ res[t].status = 500
        /\ IsSome(entry[t].last_headers)
        /\ IsSome(entry[t].last_body)
        /\ IsSome(entry[t].last_fetch_time)

====
